---- MODULE Spec2Model ----
(***************************************************************************)
(* State-machine model of the SearchUI component                           *)
(* (src/app/semantic-search/SearchUI.js): the React state of the           *)
(* component, its event handlers, the continuation of the asynchronous     *)
(* search call, the two effects that recompose the view, and the renders   *)
(* by which React commits the queued state updates.                        *)
(*                                                                         *)
(* JavaScript strings are sequences of one-character strings, so that      *)
(* trim, toLowerCase, the regular-expression replace and parseInt are      *)
(* computed character by character.  JavaScript values that may be of      *)
(* several types (a record's year, policy_area and score) are tagged       *)
(* records [k, s, n].  Numbers are integers.                               *)
(***************************************************************************)
EXTENDS Integers, Sequences, FiniteSets, Bags, TLC

VARIABLES
    rawData,        \* useState([])        line 50: the baseline records
    rawResults,     \* useState(null)      line 51: [null, items]
    isLoading,      \* useState(false)     line 52
    inputTerm,      \* useState("")        line 54
    searchTerm,     \* useState("")        line 55
    selectedYear,   \* useState("")        line 56
    selectedPolicy, \* useState("")        line 57
    sortOrder,      \* useState("newest")  line 58
    currentPage,    \* useState(1)         line 59
    filteredData,   \* useState([])        line 118: the composed view
    queued,         \* the values of the ten states above once the updates queued by the setters are rendered
    due,            \* the effects of lines 119-148 that the last render left to run
    raced,          \* the input events handled since React last had something left to render or to run
    loadState,      \* the /database.json fetch of lines 64-69: "loading", "done", "failed"
    pending,        \* bag of the queries of the search calls awaiting resolution (line 91)
    session,        \* what the environment offers: the datasets /database.json may hold, the texts typed, the filter options used
    lastEvent       \* history: the step that changed the state last

\* the ten variables of useState hold the values of the last render React
\* committed: what is on the screen and what the handlers read
vars == <<rawData, rawResults, isLoading, inputTerm, searchTerm, selectedYear,
          selectedPolicy, sortOrder, currentPage, filteredData, queued, due,
          raced, loadState, pending, session, lastEvent>>

----------------------------------------------------------------------------
(* Bounds of the model *)

\* search calls that may be awaiting resolution at the same time
MaxPending == 2
\* input events that may be handled while React has updates left to render
\* or effects left to run
MaxRaced == 1
\* number of records of the large baseline dataset
BigLen == 23
\* new Date().getFullYear(), line 274
ThisYear == 2017

(* Program constants *)

ITEMS_PER_PAGE == 20
\* { length: thisYear - 2015 }, line 276
YearOptionBase == 2015

----------------------------------------------------------------------------
(* JavaScript values *)

Str(s) == [k |-> "string", s |-> s, n |-> 0]
Num(n) == [k |-> "number", s |-> <<>>, n |-> n]
NaN == [k |-> "NaN", s |-> <<>>, n |-> 0]
Undefined == [k |-> "undefined", s |-> <<>>, n |-> 0]

\* the outcome of a call that throws
Thrown == [k |-> "throws", s |-> <<>>, n |-> 0]

\* !v for the values that occur: undefined and "" are falsy
Falsy(v) == v.k = "undefined" \/ (v.k = "string" /\ v.s = <<>>) \/ v.k = "NaN"
                \/ (v.k = "number" /\ v.n = 0)

----------------------------------------------------------------------------
(* Characters and strings *)

UpperChars == <<"A","B","C","D","E","F","G","H","I","J","K","L","M",
                "N","O","P","Q","R","S","T","U","V","W","X","Y","Z">>
LowerChars == <<"a","b","c","d","e","f","g","h","i","j","k","l","m",
                "n","o","p","q","r","s","t","u","v","w","x","y","z">>
DigitChars == <<"0","1","2","3","4","5","6","7","8","9">>

Range(f) == {f[i] : i \in DOMAIN f}

DigitSet == Range(DigitChars)
\* \w of a regular expression: [A-Za-z0-9_]
WordSet == Range(UpperChars) \cup Range(LowerChars) \cup Range(DigitChars) \cup {"_"}
\* \s of a regular expression, the white space String.prototype.trim removes
\* and parseInt skips: space, tab, line feed, carriage return, form feed,
\* and, written as the characters themselves, the vertical tab U+000B, the
\* no-break space U+00A0, U+FEFF and the space separator U+1680.  The other
\* space separators (U+2000 to U+200A, U+202F, U+205F, U+3000) and the line
\* terminators U+2028 and U+2029 cannot stand in a string of this module.
SpaceSet == {" ", "\t", "\n", "\r", "\f", "", " ", "﻿", " "}

IsDigit(c) == c \in DigitSet
DigitValue(c) == (CHOOSE i \in 1..10 : DigitChars[i] = c) - 1

IsSpace(c) == c \in SpaceSet
IsWord(c) == c \in WordSet

\* the upper-case letters U+00C0 to U+00DE (the sign U+00D7 is none) and
\* their lower-case forms U+00E0 to U+00FE
Latin1Upper == <<"À","Á","Â","Ã","Ä","Å","Æ","Ç","È","É",
               "Ê","Ë","Ì","Í","Î","Ï","Ð","Ñ","Ò","Ó",
               "Ô","Õ","Ö","Ø","Ù","Ú","Û","Ü","Ý","Þ">>
Latin1Lower == <<"à","á","â","ã","ä","å","æ","ç","è","é",
               "ê","ë","ì","í","î","ï","ð","ñ","ò","ó",
               "ô","õ","ö","ø","ù","ú","û","ü","ý","þ">>

\* the characters of the strings of this model: the white space and the
\* characters U+0021 to U+007E, U+00A1 to U+00FF and the capital sharp s
\* U+1E9E, without the micro sign U+00B5 and U+00FF, whose upper-case forms
\* a string of this module cannot hold, and without the grave accent U+0060
Alphabet ==
    SpaceSet \cup
    {"!","\"","#","$","%","&","'","(",")","*","+",",","-",".","/",
     "0","1","2","3","4","5","6","7","8","9",":",";","<","=",">","?",
     "@","A","B","C","D","E","F","G","H","I","J","K","L","M","N","O",
     "P","Q","R","S","T","U","V","W","X","Y","Z","[","\\","]","^","_",
     "a","b","c","d","e","f","g","h","i","j","k","l","m","n","o",
     "p","q","r","s","t","u","v","w","x","y","z","{","|","}","~","¡",
     "¢","£","¤","¥","¦","§","¨","©","ª","«","¬","­","®","¯","°","±",
     "²","³","´","¶","·","¸","¹","º","»","¼","½","¾","¿","À","Á","Â",
     "Ã","Ä","Å","Æ","Ç","È","É","Ê","Ë","Ì","Í","Î","Ï","Ð","Ñ","Ò",
     "Ó","Ô","Õ","Ö","×","Ø","Ù","Ú","Û","Ü","Ý","Þ","ß","à","á","â",
     "ã","ä","å","æ","ç","è","é","ê","ë","ì","í","î","ï","ð","ñ","ò",
     "ó","ô","õ","ö","÷","ø","ù","ú","û","ü","ý","þ",
     "ẞ"}

\* String.prototype.toLowerCase of the characters of the alphabet, tabulated:
\* A to Z, U+00C0 to U+00DE and U+1E9E are changed
LowerOf ==
    LET from == UpperChars \o Latin1Upper \o <<"ẞ">>
        to == LowerChars \o Latin1Lower \o <<"ß">>
    IN  [c \in Alphabet |->
            IF c \in Range(from) THEN to[CHOOSE i \in DOMAIN from : from[i] = c] ELSE c]
        @@ <<>>

\* String.prototype.toLowerCase of one character of the alphabet
ToLowerChar(c) == LowerOf[c]

\* String.prototype.toLowerCase
ToLowerCase(s) == [i \in 1..Len(s) |-> ToLowerChar(s[i])]

RECURSIVE TrimStart(_)
TrimStart(s) == IF s # <<>> /\ IsSpace(Head(s)) THEN TrimStart(Tail(s)) ELSE s

RECURSIVE TrimEnd(_)
TrimEnd(s) ==
    IF s # <<>> /\ IsSpace(s[Len(s)]) THEN TrimEnd(SubSeq(s, 1, Len(s) - 1)) ELSE s

\* String.prototype.trim
Trim(s) == TrimEnd(TrimStart(s))

\* str.replace(/[^\w\s&]/g, "")
StripPunctuation(s) == SelectSeq(s, LAMBDA c : IsWord(c) \/ IsSpace(c) \/ c = "&")

\* normalizeString, lines 31-37; v is a JavaScript value, the outcome a
\* string, or a throw when v is neither falsy nor a string: a number has no
\* toLowerCase method
normalizeString(v) ==
    IF Falsy(v) THEN Str(<<>>)
    ELSE IF v.k # "string" THEN Thrown
    ELSE Str(Trim(StripPunctuation(ToLowerCase(v.s))))

RECURSIVE DigitsPrefix(_)
\* the longest prefix of s made of decimal digits
DigitsPrefix(s) ==
    IF s # <<>> /\ IsDigit(Head(s)) THEN <<Head(s)>> \o DigitsPrefix(Tail(s)) ELSE <<>>

RECURSIVE DigitsValue(_)
DigitsValue(d) ==
    IF d = <<>> THEN 0 ELSE 10 * DigitsValue(SubSeq(d, 1, Len(d) - 1)) + DigitValue(d[Len(d)])

\* the number a run of digits denotes; NaN when there is no digit
DigitsToNumber(d) == IF d = <<>> THEN NaN ELSE Num(DigitsValue(d))

Negate(v) == IF v.k = "number" THEN Num(0 - v.n) ELSE v

\* parseInt after the leading white space is skipped: an optional sign, then
\* the longest run of digits
ParseSigned(t) ==
    IF t # <<>> /\ Head(t) = "-" THEN Negate(DigitsToNumber(DigitsPrefix(Tail(t))))
    ELSE IF t # <<>> /\ Head(t) = "+" THEN DigitsToNumber(DigitsPrefix(Tail(t)))
    ELSE DigitsToNumber(DigitsPrefix(t))

\* parseInt(s, 10) of a string
ParseIntString(s) == ParseSigned(TrimStart(s))

\* parseInt(v, 10), lines 136-137 and 367: ToString(undefined) = "undefined" has no digit
parseInt(v) ==
    CASE v.k = "string" -> ParseIntString(v.s)
      [] v.k = "number" -> v
      [] OTHER -> NaN

RECURSIVE NatToString(_)
\* Number.prototype.toString of a natural number (line 279)
NatToString(n) ==
    IF n < 10 THEN <<DigitChars[n + 1]>>
    ELSE NatToString(n \div 10) \o <<DigitChars[(n % 10) + 1]>>

----------------------------------------------------------------------------
(* highlightText, lines 39-44 *)

\* the outcome of a pattern this model does not interpret
Unmodelled == [k |-> "unmodelled", s |-> <<>>, n |-> 0]

\* the class [.*+?^${}()|[\]\\] of line 41
EscapedSet == {".", "*", "+", "?", "^", "$", "{", "}", "(", ")", "|", "[", "]", "\\"}

\* the syntax characters of the pattern language
SyntaxSet == {"^", "$", "\\", ".", "*", "+", "?", "(", ")", "[", "]", "{", "}", "|"}

\* faulty variant of EscapeChar: "." is not in the class
EscapeCharWithoutDot(c) == IF c \in EscapedSet \ {"."} THEN <<"\\", c>> ELSE <<c>>

\* the replacement "\\$&" of line 41 for one character
EscapeChar(c) == IF c \in EscapedSet THEN <<"\\", c>> ELSE <<c>>

RECURSIVE EscapeRegExp(_)
\* line 41: searchTerm.replace(/[.*+?^${}()|[\]\\]/g, "\\$&")
EscapeRegExp(term) ==
    IF term = <<>> THEN <<>> ELSE EscapeChar(Head(term)) \o EscapeRegExp(Tail(term))

\* line 42: the source of the pattern, `(${escaped})`
PatternSource(escaped) == <<"(">> \o escaped \o <<")">>

\* the atoms of a pattern
CharAtom(c) == [kind |-> "char", c |-> c]
AnyAtom == [kind |-> "any", c |-> ""]
OtherAtom == [kind |-> "other", c |-> ""]

RECURSIVE Atoms(_)
\* the atoms of the body of a group: a backslash before a syntax character
\* makes it an ordinary character, "." stands for any character but a line
\* terminator, a character that is no syntax character stands for itself;
\* every other construct is left uninterpreted
Atoms(body) ==
    IF body = <<>> THEN <<>>
    ELSE IF Head(body) = "\\"
         THEN IF Len(body) >= 2 /\ body[2] \in SyntaxSet
              THEN <<CharAtom(body[2])>> \o Atoms(Tail(Tail(body)))
              ELSE <<OtherAtom>>
    ELSE IF Head(body) = "." THEN <<AnyAtom>> \o Atoms(Tail(body))
    ELSE IF Head(body) \in SyntaxSet THEN <<OtherAtom>> \o Atoms(Tail(body))
    ELSE <<CharAtom(Head(body))>> \o Atoms(Tail(body))

\* new RegExp(source, "gi"): the atoms of the one group the source is
PatternAtoms(source) == Atoms(SubSeq(source, 2, Len(source) - 1))

\* Canonicalize of a pattern with flag i and without flag u, for one
\* character of the alphabet: its upper-case form when that is one character,
\* and the character itself otherwise
CanonicalOf ==
    LET from == LowerChars \o Latin1Lower
        to == UpperChars \o Latin1Upper
    IN  [c \in Alphabet |->
            IF c \in Range(from) THEN to[CHOOSE i \in DOMAIN from : from[i] = c] ELSE c]
        @@ <<>>

Canonicalize(c) == CanonicalOf[c]

\* flag i: a character of the pattern matches a character of the text when
\* Canonicalize makes the same of both
AtomMatches(atom, c) ==
    IF atom.kind = "char" THEN Canonicalize(atom.c) = Canonicalize(c)
    ELSE atom.kind = "any" /\ c \notin {"\n", "\r"}

\* the pattern matches text at index i
MatchesAt(text, atoms, i) ==
    /\ i + Len(atoms) - 1 <= Len(text)
    /\ \A k \in 1..Len(atoms) : AtomMatches(atoms[k], text[i + k - 1])

\* the parts of the replacement "<mark>$1</mark>" around the match
OpenMark == <<"<","m","a","r","k",">">>
CloseMark == <<"<","/","m","a","r","k",">">>

RECURSIVE ReplaceFrom(_, _, _)
\* line 43, flag g: text.replace(regex, "<mark>$1</mark>") from index i on;
\* the scan goes on after the end of each match
ReplaceFrom(text, atoms, i) ==
    IF i > Len(text) THEN <<>>
    ELSE IF MatchesAt(text, atoms, i)
         THEN OpenMark \o SubSeq(text, i, i + Len(atoms) - 1) \o CloseMark
                  \o ReplaceFrom(text, atoms, i + Len(atoms))
         ELSE <<text[i]>> \o ReplaceFrom(text, atoms, i + 1)

\* lines 42-43 for the atoms of the pattern; text is a string
ReplaceWith(text, atoms) ==
    IF OtherAtom \in Range(atoms) THEN Unmodelled
    ELSE Str(ReplaceFrom(text.s, atoms, 1))

\* the call throws: line 40 does not return and text, being undefined, has
\* no replace method at line 43
HighlightThrows(text, term) == Trim(term) # <<>> /\ text.k # "string"

\* highlightText, lines 39-44; text is a JavaScript value, term (searchTerm
\* in the source) a string
highlightText(text, term) ==
    IF Trim(term) = <<>> THEN text
    ELSE IF HighlightThrows(text, term) THEN Thrown
    ELSE ReplaceWith(text, PatternAtoms(PatternSource(EscapeRegExp(term))))

----------------------------------------------------------------------------
(* JavaScript numbers *)

RECURSIVE TenTo(_)
\* 10 to the power k
TenTo(k) == IF k = 0 THEN 1 ELSE 10 * TenTo(k - 1)

\* s without its first n characters
Skip(s, n) == SubSeq(s, n + 1, Len(s))

\* n with the sign
Signed(negative, n) == IF negative THEN 0 - n ELSE n

\* the literal without its sign
Unsigned(t) == IF t # <<>> /\ Head(t) \in {"+", "-"} THEN Tail(t) ELSE t

\* the digits of the numerals of radix 16, 8 and 2
RadixChars == <<"0","1","2","3","4","5","6","7","8","9","a","b","c","d","e","f">>

\* the value of a character as a digit of the radix, -1 when it is none
RadixDigit(c, radix) ==
    IF c \in Alphabet /\ ToLowerChar(c) \in Range(SubSeq(RadixChars, 1, radix))
    THEN (CHOOSE i \in 1..radix : RadixChars[i] = ToLowerChar(c)) - 1
    ELSE -1

\* the number a run of digits of the radix denotes, the digits being given
\* by their values
RadixValue(values, radix) ==
    LET sum[i \in 0..Len(values)] ==
            IF i = 0 THEN 0 ELSE radix * sum[i - 1] + values[i]
    IN  sum[Len(values)]

\* what follows 0x, 0o or 0b, its characters given by their values as
\* digits: the numeral is one digit of the radix or more
RadixLiteral(values, radix) ==
    IF values # <<>> /\ \A i \in DOMAIN values : values[i] >= 0
    THEN Num(RadixValue(values, radix))
    ELSE NaN

\* the radix of 0x, 0o and 0b, in either case; 0 for any other two characters
RadixOfPrefix(t) ==
    IF Len(t) < 2 \/ t[1] # "0" THEN 0
    ELSE CASE t[2] \in {"x", "X"} -> 16
           [] t[2] \in {"o", "O"} -> 8
           [] t[2] \in {"b", "B"} -> 2
           [] OTHER -> 0

\* the parts of an unsigned decimal literal, frac being the digits after
\* the point and y what follows the point: the digits before the point, the
\* digits after it, and what follows them
AfterPoint(int, frac, y) == [int |-> int, frac |-> frac, rest |-> Skip(y, Len(frac))]

\* x is what follows the digits before the point
AfterInteger(int, x) ==
    IF x # <<>> /\ Head(x) = "."
    THEN AfterPoint(int, DigitsPrefix(Tail(x)), Tail(x))
    ELSE [int |-> int, frac |-> <<>>, rest |-> x]

\* the parts of u, an unsigned literal, int being its leading digits
PartsAfter(int, u) == AfterInteger(int, Skip(u, Len(int)))

\* the digits of an exponent: one digit or more and nothing else; [ok, n]
ExponentDigits(negative, d) ==
    IF d # <<>> /\ DigitsPrefix(d) = d
    THEN [ok |-> TRUE, n |-> Signed(negative, DigitsValue(d))]
    ELSE [ok |-> FALSE, n |-> 0]

\* the exponent part e, e+ or e- and digits, in either case, or none: [ok, n]
ExponentPart(rest) ==
    IF rest = <<>> THEN [ok |-> TRUE, n |-> 0]
    ELSE IF Head(rest) \notin {"e", "E"} THEN [ok |-> FALSE, n |-> 0]
    ELSE ExponentDigits(Len(rest) >= 2 /\ rest[2] = "-", Unsigned(Tail(rest)))

\* the most digits of a numeral whose value this model computes
MaxDigits == 9

\* value, a number of len digits, times 10 to the power, when that is an
\* integer of MaxDigits digits at most; a literal that denotes a number with
\* a fraction, or a longer one, has no value in this model
Scaled(value, len, power) ==
    CASE len <= MaxDigits /\ power >= 0 /\ len + power <= MaxDigits ->
             value * TenTo(power)
      [] len <= MaxDigits /\ power < 0 /\ 0 - power <= MaxDigits
             /\ value % TenTo(0 - power) = 0 ->
             value \div TenTo(0 - power)

\* the unsigned decimal literal u in its parts, exponent its exponent part:
\* it is digits, a point and digits on one side of it at least, or digits
\* alone, and then an exponent part or none; any other string is NaN.  The
\* numeral Infinity has no value in this model
DecimalLiteral(negative, u, parts, exponent) ==
    CASE (parts.int # <<>> \/ parts.frac # <<>>) /\ exponent.ok ->
             Num(Signed(negative,
                        Scaled(DigitsValue(parts.int \o parts.frac),
                               Len(parts.int) + Len(parts.frac),
                               exponent.n - Len(parts.frac))))
      [] ~((parts.int # <<>> \/ parts.frac # <<>>) /\ exponent.ok)
             /\ u # <<"I","n","f","i","n","i","t","y">> -> NaN

\* the decimal literal u, a sign taken off it
SignedDecimal(negative, u, parts) == DecimalLiteral(negative, u, parts, ExponentPart(parts.rest))

\* the numeral t, not empty: a literal of radix 16, 8 or 2 without a sign,
\* or a decimal literal with a sign or without
Numeral(t, radix) ==
    IF radix # 0
    THEN RadixLiteral([i \in 1..(Len(t) - 2) |-> RadixDigit(t[i + 2], radix)], radix)
    ELSE SignedDecimal(Head(t) = "-", Unsigned(t),
                       PartsAfter(DigitsPrefix(Unsigned(t)), Unsigned(t)))

\* the string t, white space taken off both ends: the empty string is 0
TrimmedToNumber(t) == IF t = <<>> THEN Num(0) ELSE Numeral(t, RadixOfPrefix(t))

\* ToNumber of a string
StringToNumber(s) == TrimmedToNumber(Trim(s))

\* ToNumber of the values that occur as operands of "-": a number, a string,
\* undefined or NaN
ToNumber(v) ==
    IF v.k = "number" THEN v
    ELSE IF v.k = "string" THEN StringToNumber(v.s)
    ELSE NaN

\* x - y of two numbers
NumberMinus(x, y) == IF x.k = "NaN" \/ y.k = "NaN" THEN NaN ELSE Num(x.n - y.n)

\* a - b
Minus(a, b) == NumberMinus(ToNumber(a), ToNumber(b))

----------------------------------------------------------------------------
(* Array.prototype.sort *)

\* the comparison functions of lines 132 and 135-139; mode is "score" when
\* rawResults is not null and the sort order otherwise
scoreCompare(a, b) == Minus(b.score, a.score)

\* line 138, yA and yB being the parsed years
YearOrder(order, yA, yB) == IF order = "newest" THEN Minus(yB, yA) ELSE Minus(yA, yB)

\* lines 135-139
yearCompare(order, a, b) == YearOrder(order, parseInt(a.year), parseInt(b.year))

\* faulty variant of comparefn: search results are sorted by year as well
comparefnAlwaysYear(mode, a, b) ==
    yearCompare(IF mode = "score" THEN "newest" ELSE mode, a, b)

comparefn(mode, a, b) ==
    IF mode = "score" THEN scoreCompare(a, b) ELSE yearCompare(mode, a, b)

\* a NaN result of the comparison function counts as +0
NaNToZero(v) == IF v.k = "NaN" THEN 0 ELSE v.n

\* SortCompare of the language
SortCompare(mode, a, b) == NaNToZero(comparefn(mode, a, b))

RECURSIVE ExtendRun(_, _, _, _)
\* the last index of the run that starts at index 1, idx being the next
\* index to examine
ExtendRun(arr, mode, descending, idx) ==
    IF idx > Len(arr) THEN idx - 1
    ELSE IF descending = (SortCompare(mode, arr[idx], arr[idx - 1]) < 0)
         THEN ExtendRun(arr, mode, descending, idx + 1)
         ELSE idx - 1

Reverse(s) == [i \in 1..Len(s) |-> s[Len(s) + 1 - i]]

\* a strictly descending run is reversed: <<array, run length>>
MakeRun(arr, descending, runLength) ==
    IF descending
    THEN <<Reverse(SubSeq(arr, 1, runLength)) \o SubSeq(arr, runLength + 1, Len(arr)),
           runLength>>
    ELSE <<arr, runLength>>

CountRun(arr, mode, descending) ==
    MakeRun(arr, descending, ExtendRun(arr, mode, descending, 3))

\* the initial run, made ascending: <<array, run length>>; Len(arr) >= 2
CountAndMakeRun(arr, mode) ==
    CountRun(arr, mode, SortCompare(mode, arr[2], arr[1]) < 0)

RECURSIVE BinarySearch(_, _, _, _, _)
\* the index at which pivot is inserted in the sorted prefix [left, right)
BinarySearch(arr, mode, pivot, left, right) ==
    IF left >= right THEN left
    ELSE IF SortCompare(mode, pivot, arr[left + ((right - left) \div 2)]) < 0
         THEN BinarySearch(arr, mode, pivot, left, left + ((right - left) \div 2))
         ELSE BinarySearch(arr, mode, pivot, left + ((right - left) \div 2) + 1, right)

\* arr with the element at index start moved to index left <= start
MoveTo(arr, start, left) ==
    SubSeq(arr, 1, left - 1) \o <<arr[start]>> \o SubSeq(arr, left, start - 1)
        \o SubSeq(arr, start + 1, Len(arr))

RECURSIVE BinaryInsertionSort(_, _, _)
\* inserts arr[start], arr[start + 1], ... in the sorted prefix before them
BinaryInsertionSort(arr, mode, start) ==
    IF start > Len(arr) THEN arr
    ELSE BinaryInsertionSort(
             MoveTo(arr, start, BinarySearch(arr, mode, arr[start], 1, start)),
             mode, start + 1)

\* the elements after the initial run are inserted in it
SortFromRun(run, mode) == BinaryInsertionSort(run[1], mode, run[2] + 1)

\* the comparison function orders the elements of arr consistently: equal is
\* an equivalence, less is the converse of greater, and both are transitive
\* and agree with equal
Consistent(indices, sign) ==
    \A i, j, k \in indices :
        /\ sign[<<i, i>>] = 0
        /\ (sign[<<i, j>>] < 0) = (sign[<<j, i>>] > 0)
        /\ (sign[<<i, j>>] = 0 /\ sign[<<j, k>>] = 0) => sign[<<i, k>>] = 0
        /\ (sign[<<i, j>>] < 0 /\ sign[<<j, k>>] <= 0) => sign[<<i, k>>] < 0
        /\ (sign[<<i, j>>] <= 0 /\ sign[<<j, k>>] < 0) => sign[<<i, k>>] < 0

\* the comparison function is consistent on the elements of arr
ConsistentOn(arr, mode) ==
    Consistent(DOMAIN arr,
               [p \in (DOMAIN arr) \X (DOMAIN arr) |-> SortCompare(mode, arr[p[1]], arr[p[2]])])

\* list.sort(comparefn) as the engine sorts an array of fewer than 64
\* elements: the initial run is found (and reversed when it is strictly
\* descending), then the remaining elements are inserted by binary search.
\* With a consistent comparison function this is the stable sort, which is
\* what the engine makes of an array of 64 elements or more as well; what it
\* makes of such an array with a comparison function that is not consistent
\* is not modelled.
ArraySort(arr, mode) ==
    CASE Len(arr) < 2 -> arr
      [] Len(arr) >= 2 /\ (Len(arr) < 64 \/ ConsistentOn(arr, mode)) ->
             SortFromRun(CountAndMakeRun(arr, mode), mode)

----------------------------------------------------------------------------
(* The compose effect, lines 119-144 *)

\* the filter callback, lines 122-128; year and policy are strings
okYear(item, year) == year = <<>> \/ item.year = Str(year)

\* lines 124-126 throw: with a policy selected normalizeString is applied to
\* the label of the record, whatever the year test gave
FilterThrows(item, policy) ==
    policy # <<>> /\ normalizeString(item.policy_area) = Thrown

\* lines 124-126, when they do not throw
okPolicy(item, policy) ==
    CASE policy = <<>> -> TRUE
      [] policy # <<>> /\ ~FilterThrows(item, policy) ->
             normalizeString(item.policy_area) = normalizeString(Str(policy))

\* faulty variant of keep: one of the two tests is enough
keepEither(item, year, policy) == okYear(item, year) \/ okPolicy(item, policy)

\* line 127, when the callback does not throw
keep(item, year, policy) ==
    CASE ~FilterThrows(item, policy) -> okYear(item, year) /\ okPolicy(item, policy)

\* line 120
SourceList(data, results) == IF ~results.null THEN results.items ELSE data

\* lines 122-128 throw: the callback throws for a record of the list
ComposeThrows(data, results, policy) ==
    \E item \in Range(SourceList(data, results)) : FilterThrows(item, policy)

\* lines 120-140: the value given to setFilteredData, or a throw that leaves
\* lines 142 and 143 unreached
Compose(data, results, year, policy, order) ==
    IF ComposeThrows(data, results, policy) THEN Thrown
    ELSE ArraySort(SelectSeq(SourceList(data, results),
                             LAMBDA item : keep(item, year, policy)),
                   IF ~results.null THEN "score" ELSE order)

\* faulty variant of TotalPagesOf: the quotient rounded down, plus one
TotalPagesOfFloorPlusOne(view) == (Len(view) \div ITEMS_PER_PAGE) + 1

\* line 151
TotalPagesOf(view) == (Len(view) + ITEMS_PER_PAGE - 1) \div ITEMS_PER_PAGE

----------------------------------------------------------------------------
(* Inputs: what the environment may hand to the component *)

\* a record of /database.json; a baseline record carries no score
Record(caseNumber, year, policyArea, text) ==
    [case_number |-> Str(caseNumber), year |-> year, policy_area |-> policyArea,
     text |-> text, score |-> Undefined]

\* texts of records
TextA == <<"M","&","A"," ","(","E","U",")",","," ","m","&","a"," ","(","e","u",")","+">>
TextC == <<"E","U",".">>
TextB == <<"E","u"," ","a",".","b"," ","a","x","b"," ","\\">>

Merger == <<"M","e","r","g","e","r">>
Antitrust == <<"A","n","t","i","t","r","u","s","t">>

\* line 46
policyAreas == <<Merger, Antitrust>>

\* the i-th record of the large dataset: years 2016..2019 in no order
BigRecord(i) ==
    Record(<<"M", ".">> \o NatToString(i),
           Str(NatToString(2016 + (i % 4))),
           Str(IF i % 3 = 0 THEN Antitrust ELSE Merger),
           Str(TextC))

BigData == [i \in 1..BigLen |-> BigRecord(i)]

\* a small dataset with labels that differ in case, punctuation (an
\* underscore among it) and white space, with years that are not numeric, are missing, or are a JSON
\* number instead of a string, and with a text that is empty or missing
SmallData ==
    << Record(<<"A",".","1">>, Str(<<"2","0","1","7">>), Str(Antitrust \o <<" ">>), Str(TextA)),
       Record(<<"A",".","2">>, Str(<<"n","/","a">>), Str(Merger), Str(<<>>)),
       Record(<<"A",".","3">>, Str(<<"2","0","1","8">>), Str(<<"a","n","t","i","-","t","r","u","s","t">>),
              Str(TextB)),
       Record(<<"A",".","4">>, Undefined, Undefined, Undefined),
       Record(<<"A",".","5">>, Str(<<"2","0","1","6">>), Str(<<"M","E","R","G","E","R","!">>), Str(TextA)),
       Record(<<"A",".","6">>, Num(2016), Str(Merger), Str(TextB)),
       Record(<<"A",".","7">>, Str(<<"2","0","1","6">>),
              Str(<<"A","n","t","i","_","t","r","u","s","t">>), Str(TextB)) >>

\* a dataset that fills one page exactly
FullPageData == [i \in 1..ITEMS_PER_PAGE |-> BigRecord(i)]

Datasets == {BigData, SmallData, FullPageData}

\* a match of the search response: a score and the record as metadata
Match(score, caseNumber, year, policyArea, text) ==
    [score |-> score,
     metadata |-> [case_number |-> Str(caseNumber), year |-> year,
                   policy_area |-> policyArea, text |-> text]]

MatchesA ==
    << Match(Num(91), <<"S",".","1">>, Str(<<"2","0","1","7">>), Str(Merger),
             Str(TextA)),
       Match(Num(77), <<"S",".","2">>, Str(<<"2","0","1","8">>), Str(Antitrust),
             Str(TextB)),
       Match(Num(77), <<"S",".","3">>, Str(<<"2","0","1","6">>), Str(Merger),
             Str(TextA)) >>

\* a response that is not in score order and holds equal scores
MatchesB ==
    << Match(Num(50), <<"S",".","4">>, Str(<<"2","0","1","8">>), Str(Antitrust),
             Str(TextB)),
       Match(Num(80), <<"S",".","5">>, Str(<<"2","0","1","7">>), Str(Merger),
             Str(TextA)),
       Match(Num(50), <<"S",".","6">>, Str(<<"2","0","1","7">>), Str(Merger),
             Str(TextA)),
       Match(Num(80), <<"S",".","7">>, Str(<<"2","0","1","6">>), Str(Antitrust),
             Str(TextA)) >>

\* what the awaited calls of lines 91-94 may produce: fetch rejects, the body
\* is not JSON, the JSON has no matches array, or it has one
Outcomes ==
    { [kind |-> "network", hasMatches |-> FALSE, matches |-> <<>>],
      [kind |-> "parse", hasMatches |-> FALSE, matches |-> <<>>],
      [kind |-> "json", hasMatches |-> FALSE, matches |-> <<>>],
      [kind |-> "json", hasMatches |-> TRUE, matches |-> MatchesA],
      [kind |-> "json", hasMatches |-> TRUE, matches |-> MatchesB] }

\* the search backend answers a query with the same matches every time it
\* answers with matches
MatchesFor(q) == IF q = <<"e","u">> THEN MatchesA ELSE MatchesB

\* what the awaited calls may produce for query q
OutcomesOf(q) == {o \in Outcomes : o.hasMatches => o.matches = MatchesFor(q)}

\* what the user may type in the search box
InputTerms ==
    { <<" ">>, <<"e","u">>, <<" ","M","&","A"," ","(","E","U",")"," ">> }

\* further terms highlightText is applied to: all white space, regular-
\* expression metacharacters alone and between letters, and letters beyond
\* a to z
ExtraTerms ==
    { <<" ", " ">>, <<".">>, <<"a", ".", "b">>, <<"(">>, <<"+">>, <<"\\">>,
      <<"à">>, <<"s","t","r","a","ß","e">> }

\* the terms highlightText may be called with: the stored term of any state
\* (line 82) and the further terms
HighlightTerms == {<<>>} \cup {Trim(t) : t \in InputTerms} \cup ExtraTerms

\* the values the text of a record may have, among them texts with letters
\* beyond A to Z
HighlightTexts ==
    {Str(TextA), Str(TextB), Str(TextC), Str(<<>>), Undefined,
     Str(<<"À"," ","l","a"," ","c","a","r","t","e",","," ","d","é","j","à">>),
     Str(<<"S","T","R","A","ẞ","E">>)}

\* highlightText, tabulated
HighlightOf ==
    [x \in HighlightTexts \X HighlightTerms |-> highlightText(x[1], x[2])] @@ <<>>

\* the options of the year select, lines 272-283: "" and ThisYear down to 2016
YearOptions ==
    {<<>>} \cup {NatToString(ThisYear - i) : i \in 0..(ThisYear - YearOptionBase - 1)}

\* the policy buttons, lines 231-259
PolicyOptions == {<<>>} \cup Range(policyAreas)

\* the sort buttons, line 292
SortOptions == {"newest", "oldest"}

\* what the page-number box (input type="number", line 374) may hold when
\* its form is submitted: nothing, or a floating-point numeral
PageInputs ==
    { <<>>, <<"0">>, <<"1">>, <<"2">>, <<"3">>, <<"-","1">>, <<"2","0","e","-","1">> }

\* the sessions explored.  In each, /database.json holds one of data, the
\* user types the texts of terms and picks among the policy buttons and the
\* year options named: paging through a large baseline with one query,
\* filtering a small baseline, searching over a small baseline
Sessions ==
    { [data |-> {BigData, FullPageData}, terms |-> {<<"e","u">>},
       policies |-> {Merger}, years |-> {}],
      [data |-> {SmallData}, terms |-> {},
       policies |-> Range(policyAreas), years |-> YearOptions \ {<<>>}],
      [data |-> {SmallData}, terms |-> InputTerms,
       policies |-> {Antitrust}, years |-> {}] }

\* lines 94-95 throw: the call rejected, the body did not parse, or matches
\* is undefined
Throws(outcome) == outcome.kind # "json" \/ ~outcome.hasMatches

\* lines 95-98: { score: m.score, ...m.metadata }
Enrich(matches) ==
    [i \in 1..Len(matches) |-> matches[i].metadata @@ [score |-> matches[i].score]]

Null == [null |-> TRUE, items |-> <<>>]
Results(items) == [null |-> FALSE, items |-> items]


----------------------------------------------------------------------------
(* React's scheduling of the state updates                                 *)
(*                                                                         *)
(* A setter queues an update.  The updates of an input event (click,       *)
(* change, submit) are rendered and committed before the event ends, and   *)
(* the effects of that render run before it ends too.  The updates queued  *)
(* by a promise continuation or by an effect are rendered in a later task; *)
(* the render an input event makes passes them over, and they are applied  *)
(* in the order of the calls when their own render comes.  The effects of  *)
(* such a later render run in a task of their own, or just before the next *)
(* render if that comes first.                                             *)

\* faulty variant of PageAfterEffects: the effects do not touch the page
PageAfterEffectsKeepsPage(composeRan, resetRan, page) == page

\* lines 143 and 147: both effects set the page to 1 when they run
PageAfterEffects(composeRan, resetRan, page) ==
    IF composeRan \/ resetRan THEN 1 ELSE page

\* faulty variant of ComposeDepsChanged: sortOrder is missing from the list
ComposeDepsChangedWithoutSort(old, new) ==
    \/ new.dataFresh
    \/ new.resultsFresh
    \/ new.rawResults.null # old.rawResults.null
    \/ new.selectedYear # old.selectedYear
    \/ new.selectedPolicy # old.selectedPolicy

\* the dependency list of line 144, compared between the render before (old)
\* and this render (new); a fresh array is a changed dependency
ComposeDepsChanged(old, new) ==
    \/ new.dataFresh
    \/ new.resultsFresh
    \/ new.rawResults.null # old.rawResults.null
    \/ new.selectedYear # old.selectedYear
    \/ new.selectedPolicy # old.selectedPolicy
    \/ new.sortOrder # old.sortOrder

\* the dependency list of line 148
ResetDepsChanged(old, new) ==
    \/ new.resultsFresh
    \/ new.rawResults.null # old.rawResults.null
    \/ new.selectedYear # old.selectedYear
    \/ new.selectedPolicy # old.selectedPolicy
    \/ new.sortOrder # old.sortOrder

\* every value the five dependencies of the compose effect may take
ComposeInputs ==
    SortOptions \X PolicyOptions \X YearOptions
        \X ({Null} \cup {Results(Enrich(o.matches)) : o \in {x \in Outcomes : ~Throws(x)}})
        \X ({<<>>} \cup Datasets)

\* Compose, tabulated over ComposeInputs
ComposeOf == [x \in ComposeInputs |-> Compose(x[5], x[4], x[3], x[2], x[1])] @@ <<>>

\* ComposeThrows, tabulated over ComposeInputs
ComposeThrowsOf == [x \in ComposeInputs |-> ComposeThrows(x[5], x[4], x[2])] @@ <<>>

\* lines 119-144 for the values s of a render
ViewOf(s) ==
    ComposeOf[<<s.sortOrder, s.selectedPolicy, s.selectedYear, s.rawResults, s.rawData>>]

\* the compose effect throws for the values s of a render
ComposeThrowsIn(s) ==
    ComposeThrowsOf[<<s.sortOrder, s.selectedPolicy, s.selectedYear, s.rawResults, s.rawData>>]

\* Math.max and Math.min of two integers
Max(a, b) == IF a >= b THEN a ELSE b
Min(a, b) == IF a <= b THEN a ELSE b

\* line 151
totalPages == TotalPagesOf(filteredData)

\* Array.prototype.slice(start, end) with 0 <= start <= end: both ends are
\* clamped to the length of the array
Slice(list, start, end) == SubSeq(list, Min(start, Len(list)) + 1, Min(end, Len(list)))

\* lines 152-155 for a view and a page
PageDataOf(view, page) ==
    Slice(view, (page - 1) * ITEMS_PER_PAGE, (page - 1) * ITEMS_PER_PAGE + ITEMS_PER_PAGE)

\* lines 152-155
currentPageData == PageDataOf(filteredData, currentPage)

\* line 479, for a record of the page
RenderedHtml(item) == HighlightOf[<<item.text, searchTerm>>]

\* lines 418-485 for the values a render reads: the list is rendered when
\* the spinner is not, and the render throws when the formatting of a score
\* (lines 450-452: a score that is neither null nor undefined is formatted by
\* toFixed, a method of numbers only) or highlightText does
RenderThrowsWith(loading, term, view, page) ==
    /\ ~loading
    /\ \E item \in Range(PageDataOf(view, page)) :
          \/ item.score.k \notin {"undefined", "number", "NaN"}
          \/ HighlightThrows(item.text, term)

\* the render of the values s throws
RenderThrowsIn(s) ==
    RenderThrowsWith(s.isLoading, s.searchTerm, s.filteredData, s.currentPage)

\* the render of the committed state throws
RenderThrows == RenderThrowsWith(isLoading, searchTerm, filteredData, currentPage)

\* the compose effect of the committed state has run and thrown: the values
\* it throws for were committed by a render that changed its dependencies,
\* and it is not waiting to run
EffectThrew ==
    /\ ~due.compose
    /\ ComposeThrowsOf[<<sortOrder, selectedPolicy, selectedYear, rawResults, rawData>>]

\* an error thrown while rendering or by an effect unmounts the component:
\* nothing is shown, no handler runs any more and the setters do nothing
Mounted == ~RenderThrows /\ ~EffectThrew

\* the committed state as one record; the two marks tell that an array not
\* yet rendered was given to setRawData, to setRawResults
Committed ==
    [ rawData |-> rawData, rawResults |-> rawResults, isLoading |-> isLoading,
      inputTerm |-> inputTerm, searchTerm |-> searchTerm,
      selectedYear |-> selectedYear, selectedPolicy |-> selectedPolicy,
      sortOrder |-> sortOrder, currentPage |-> currentPage,
      filteredData |-> filteredData,
      dataFresh |-> FALSE, resultsFresh |-> FALSE ]

\* the values s are committed
Commit(s) ==
    /\ rawData' = s.rawData
    /\ rawResults' = s.rawResults
    /\ isLoading' = s.isLoading
    /\ inputTerm' = s.inputTerm
    /\ searchTerm' = s.searchTerm
    /\ selectedYear' = s.selectedYear
    /\ selectedPolicy' = s.selectedPolicy
    /\ sortOrder' = s.sortOrder
    /\ currentPage' = s.currentPage
    /\ filteredData' = s.filteredData

\* the array marks of s taken off: its arrays have been rendered
Rendered(s) == [s EXCEPT !.dataFresh = FALSE, !.resultsFresh = FALSE]

\* no effect is waiting to run
NoEffects == [compose |-> FALSE, reset |-> FALSE]

\* lines 119-148: the updates of the effects that run (composeRan: lines
\* 119-144, resetRan: lines 146-148) after the render of the values shown,
\* put behind the updates q already queued; when the compose effect throws
\* it has called no setter and the reset effect, which comes after it, is
\* not run
EffectUpdates(q, shown, composeRan, resetRan) ==
    IF composeRan /\ ComposeThrowsIn(shown) THEN q
    ELSE [q EXCEPT !.filteredData = IF composeRan THEN ViewOf(shown) ELSE @,
                   !.currentPage = PageAfterEffects(composeRan, resetRan, @)]

\* React has nothing left to render and no effect left to run
Idle == queued = Committed /\ due = NoEffects

\* what follows the updates of a handler, those updates made on the committed
\* state being shown and made on the queue being q: effects still waiting
\* run first, then shown is rendered and committed; when that render throws
\* the component is unmounted, otherwise the effects of the render run and
\* queue their updates.  A waiting compose effect that throws is the step
\* RunEffects, after which no handler runs
Effects(shown, q) ==
    /\ ~(due.compose /\ ComposeThrowsIn(Committed))
    /\ Idle \/ raced < MaxRaced
    /\ raced' = IF Idle THEN 0 ELSE raced + 1
    /\ Commit(shown)
    /\ queued' =
          IF RenderThrowsIn(shown)
          THEN shown
          ELSE EffectUpdates(EffectUpdates(q, Committed, due.compose, due.reset),
                             shown,
                             ComposeDepsChanged(Committed, shown),
                             ResetDepsChanged(Committed, shown))
    /\ due' = NoEffects
    /\ UNCHANGED session

\* the setters of a promise continuation queue the values q; after an
\* unmount they do nothing
Queue(q) ==
    /\ queued' = IF Mounted THEN q ELSE queued
    /\ UNCHANGED <<rawData, rawResults, isLoading, inputTerm, searchTerm,
                   selectedYear, selectedPolicy, sortOrder, currentPage,
                   filteredData, due, raced, session>>

----------------------------------------------------------------------------
(* Initial state: the first render, the first run of the effects and the   *)
(* render of their updates                                                 *)

Init ==
    /\ rawData = <<>>
    /\ rawResults = Null
    /\ isLoading = FALSE
    /\ inputTerm = <<>>
    /\ searchTerm = <<>>
    /\ selectedYear = <<>>
    /\ selectedPolicy = <<>>
    /\ sortOrder = "newest"
    /\ currentPage = 1
    /\ filteredData = <<>>
    /\ loadState = "loading"
    /\ pending = EmptyBag
    /\ lastEvent = "mount"
    /\ session \in Sessions
    /\ queued = Committed
    /\ due = NoEffects
    /\ raced = 0

----------------------------------------------------------------------------
(* React's own steps *)

\* React renders the queued updates and commits them; the effects whose
\* dependencies changed are left to run
Render ==
    /\ Mounted
    /\ due = NoEffects
    /\ queued # Committed
    /\ Commit(queued)
    /\ queued' = Rendered(queued)
    /\ due' = IF RenderThrowsIn(queued)
              THEN NoEffects
              ELSE [compose |-> ComposeDepsChanged(Committed, queued),
                    reset |-> ResetDepsChanged(Committed, queued)]
    /\ raced' = IF due' = NoEffects THEN 0 ELSE raced
    /\ lastEvent' = "render"
    /\ UNCHANGED <<loadState, pending, session>>

\* lines 119-148: the effects left to run by the last render run and queue
\* their updates
RunEffects ==
    /\ Mounted
    /\ due # NoEffects
    /\ queued' = EffectUpdates(queued, Committed, due.compose, due.reset)
    /\ due' = NoEffects
    /\ raced' = IF queued' = Committed THEN 0 ELSE raced
    /\ UNCHANGED <<rawData, rawResults, isLoading, inputTerm, searchTerm,
                   selectedYear, selectedPolicy, sortOrder, currentPage,
                   filteredData, loadState, pending, session>>
    /\ lastEvent' = "effects"

----------------------------------------------------------------------------
(* Handlers *)

\* line 67: setRawData(data)
BaselineUpdates(s, data) == [s EXCEPT !.rawData = data, !.dataFresh = TRUE]

\* lines 64-69: the baseline fetch resolves with an array
LoadBaseline(data) ==
    /\ data \in session.data
    /\ loadState = "loading"
    /\ loadState' = "done"
    /\ Queue(BaselineUpdates(queued, data))
    /\ UNCHANGED pending
    /\ lastEvent' = "baseline"

\* lines 64-69: the baseline fetch fails; .catch(console.error)
LoadBaselineFails ==
    /\ loadState = "loading"
    /\ loadState' = "failed"
    /\ Queue(queued)
    /\ UNCHANGED pending
    /\ lastEvent' = "baselineFailed"

\* line 198: setInputTerm(e.target.value)
InputUpdates(s, text) == [s EXCEPT !.inputTerm = text]

\* line 198: onChange of the search box
SetInputTerm(text) ==
    /\ Mounted
    /\ text \in session.terms
    /\ text # inputTerm
    /\ Effects(InputUpdates(Committed, text), InputUpdates(queued, text))
    /\ UNCHANGED <<loadState, pending>>
    /\ lastEvent' = "input"

\* faulty variant of SubmittedQuery: the query is not trimmed
SubmittedQueryUntrimmed(text) == text

\* line 81: const q = inputTerm.trim()
SubmittedQuery(text) == Trim(text)

\* lines 82-86: setSearchTerm(q); setRawResults(null)
SubmitEmptyUpdates(s) ==
    [s EXCEPT !.searchTerm = SubmittedQuery(inputTerm),
              !.rawResults = Null,
              !.resultsFresh = FALSE]

\* handleSubmit, lines 79-87: the query is empty after trim
HandleSubmitEmpty ==
    /\ Mounted
    /\ SubmittedQuery(inputTerm) = <<>>
    /\ Effects(SubmitEmptyUpdates(Committed), SubmitEmptyUpdates(queued))
    /\ UNCHANGED <<loadState, pending>>
    /\ lastEvent' = "submitEmpty"

\* lines 82 and 89: setSearchTerm(q); setIsLoading(true)
SubmitQueryUpdates(s) ==
    [s EXCEPT !.searchTerm = SubmittedQuery(inputTerm), !.isLoading = TRUE]

\* handleSubmit, lines 79-93: up to the await of the search call
HandleSubmitQuery ==
    /\ Mounted
    /\ SubmittedQuery(inputTerm) # <<>>
    /\ BagCardinality(pending) < MaxPending
    /\ pending' = pending (+) SetToBag({SubmittedQuery(inputTerm)})
    /\ Effects(SubmitQueryUpdates(Committed), SubmitQueryUpdates(queued))
    /\ UNCHANGED loadState
    /\ lastEvent' = "submit"

\* faulty variant of ResultsAfterSuccess: the response of a call that is not the one
\* submitted last is dropped
ResultsAfterSuccessIfLatest(q, outcome) ==
    IF q = searchTerm THEN Results(Enrich(outcome.matches)) ELSE queued.rawResults

\* line 99: the value given to rawResults after the call of query q resolved
ResultsAfterSuccess(q, outcome) == Results(Enrich(outcome.matches))

\* faulty variant of ResultsAfterFailure: the catch block drops the results
ResultsAfterFailureCleared(q, outcome) == Null

\* lines 101-103: the catch block logs and calls no setter of rawResults
ResultsAfterFailure(q, outcome) == queued.rawResults

\* faulty variant of LoadingAfterSettle: the flag is cleared after line 100 only
LoadingAfterSettleOnSuccessOnly(outcome) ==
    IF Throws(outcome) THEN queued.isLoading ELSE FALSE

\* line 104: the finally block clears the flag, whatever the outcome
LoadingAfterSettle(outcome) == FALSE

\* lines 101-104: the call threw; setIsLoading(false)
SettleFailureUpdates(s, q, outcome) ==
    [s EXCEPT !.rawResults = ResultsAfterFailure(q, outcome),
              !.isLoading = LoadingAfterSettle(outcome)]

\* lines 99-104: setRawResults(enriched); setCurrentPage(1);
\* setIsLoading(false)
SettleSuccessUpdates(s, q, outcome) ==
    [s EXCEPT !.rawResults = ResultsAfterSuccess(q, outcome),
              !.resultsFresh = TRUE,
              !.currentPage = 1,
              !.isLoading = LoadingAfterSettle(outcome)]

\* handleSubmit, lines 94-105: the continuation after the awaited call of
\* query q settles
SearchSettles(q, outcome) ==
    /\ BagIn(q, pending)
    /\ pending' = pending (-) SetToBag({q})
    /\ UNCHANGED loadState
    /\ IF Throws(outcome)
       THEN /\ Queue(SettleFailureUpdates(queued, q, outcome))
            /\ lastEvent' = "searchFailed"
       ELSE /\ Queue(SettleSuccessUpdates(queued, q, outcome))
            /\ lastEvent' = "searchResolved"

\* faulty variant of ShowAllUpdates: setCurrentPage(1) of line 115 is missing
ShowAllUpdatesKeepsPage(s) ==
    [s EXCEPT !.rawResults = Null,
              !.resultsFresh = FALSE,
              !.inputTerm = <<>>,
              !.searchTerm = <<>>,
              !.selectedYear = <<>>,
              !.selectedPolicy = <<>>,
              !.sortOrder = "newest"]

\* lines 109-115: the seven setters of handleShowAll
ShowAllUpdates(s) ==
    [s EXCEPT !.rawResults = Null,
              !.resultsFresh = FALSE,
              !.inputTerm = <<>>,
              !.searchTerm = <<>>,
              !.selectedYear = <<>>,
              !.selectedPolicy = <<>>,
              !.sortOrder = "newest",
              !.currentPage = 1]

\* handleShowAll, lines 108-116
HandleShowAll ==
    /\ Mounted
    /\ Effects(ShowAllUpdates(Committed), ShowAllUpdates(queued))
    /\ UNCHANGED <<loadState, pending>>
    /\ lastEvent' = "clear"

\* lines 232 and 244: the policy buttons; setting a state to the value it
\* has is no update
SetSelectedPolicy(policy) ==
    /\ Mounted
    /\ policy \in {<<>>} \cup session.policies
    /\ policy # selectedPolicy
    /\ Effects([Committed EXCEPT !.selectedPolicy = policy],
               [queued EXCEPT !.selectedPolicy = policy])
    /\ UNCHANGED <<loadState, pending>>
    /\ lastEvent' = "filter"

\* line 269: the year select
SetSelectedYear(year) ==
    /\ Mounted
    /\ year \in {<<>>} \cup session.years
    /\ year # selectedYear
    /\ Effects([Committed EXCEPT !.selectedYear = year],
               [queued EXCEPT !.selectedYear = year])
    /\ UNCHANGED <<loadState, pending>>
    /\ lastEvent' = "filter"

\* line 295: the sort buttons
SetSortOrder(order) ==
    /\ Mounted
    /\ order # sortOrder
    /\ Effects([Committed EXCEPT !.sortOrder = order],
               [queued EXCEPT !.sortOrder = order])
    /\ UNCHANGED <<loadState, pending>>
    /\ lastEvent' = "filter"

\* line 347: (p) => Math.max(p - 1, 1)
PrevUpdater(p) == Max(p - 1, 1)

\* faulty variant of NextUpdater: the page is not held at totalPages
NextUpdaterUnbounded(p) == p + 1

\* line 356: (p) => Math.min(p + 1, totalPages), totalPages being that of
\* the render the button belongs to
NextUpdater(p) == Min(p + 1, totalPages)

\* lines 344-352: the Prev button, rendered when the view is not empty and
\* disabled on page 1
PrevPage ==
    /\ Mounted
    /\ Len(filteredData) > 0
    /\ currentPage # 1
    /\ Effects([Committed EXCEPT !.currentPage = PrevUpdater(@)],
               [queued EXCEPT !.currentPage = PrevUpdater(@)])
    /\ UNCHANGED <<loadState, pending>>
    /\ lastEvent' = "page"

\* lines 354-362: the Next button, disabled on the last page
NextPage ==
    /\ Mounted
    /\ Len(filteredData) > 0
    /\ currentPage # totalPages
    /\ Effects([Committed EXCEPT !.currentPage = NextUpdater(@)],
               [queued EXCEPT !.currentPage = NextUpdater(@)])
    /\ UNCHANGED <<loadState, pending>>
    /\ lastEvent' = "page"

\* faulty variant of PageAfterJump: the upper bound of line 368 is not tested
PageAfterJumpNoUpperBound(text, page) ==
    IF parseInt(Str(text)).k = "number" /\ parseInt(Str(text)).n >= 1
    THEN parseInt(Str(text)).n
    ELSE page

\* lines 367-368: the page the jump form leaves for the text of its box,
\* totalPages being that of the render the form belongs to
PageAfterJump(text, page) ==
    LET v == parseInt(Str(text))
    IN  IF v.k = "number" /\ v.n >= 1 /\ v.n <= totalPages THEN v.n ELSE page

\* lines 364-369: the page-number form; when the test of line 368 fails no
\* setter is called: nothing is rendered, no effect runs and the state is
\* what it was
PageJump(text) ==
    /\ Mounted
    /\ Len(filteredData) > 0
    /\ IF LET v == parseInt(Str(text))
          IN  v.k = "number" /\ v.n >= 1 /\ v.n <= totalPages
       THEN /\ Effects([Committed EXCEPT !.currentPage = PageAfterJump(text, @)],
                       [queued EXCEPT !.currentPage = PageAfterJump(text, @)])
            /\ UNCHANGED <<loadState, pending>>
            /\ lastEvent' = "page"
       ELSE UNCHANGED vars

Next ==
    \/ Render
    \/ RunEffects
    \/ \E data \in Datasets : LoadBaseline(data)
    \/ LoadBaselineFails
    \/ \E text \in InputTerms : SetInputTerm(text)
    \/ HandleSubmitEmpty
    \/ HandleSubmitQuery
    \/ \E q \in BagToSet(pending) : \E outcome \in OutcomesOf(q) : SearchSettles(q, outcome)
    \/ HandleShowAll
    \/ \E policy \in PolicyOptions : SetSelectedPolicy(policy)
    \/ \E year \in YearOptions : SetSelectedYear(year)
    \/ \E order \in SortOptions : SetSortOrder(order)
    \/ PrevPage
    \/ NextPage
    \/ \E text \in PageInputs : PageJump(text)

Spec == Init /\ [][Next]_vars

----------------------------------------------------------------------------
(* Definitions used to state the properties *)

\* the view composed from the current values of the five inputs
CurrentView ==
    ComposeOf[<<sortOrder, selectedPolicy, selectedYear, rawResults, rawData>>]

\* the number of times record r occurs in sequence list
Occurrences(list, r) == Cardinality({i \in DOMAIN list : list[i] = r})

\* every record occurs in small at most as many times as in large
AtMostAsOften(small, large) ==
    \A r \in Range(small) : Occurrences(small, r) <= Occurrences(large, r)

\* the text holds nothing but white space
AllSpace(text) == \A i \in DOMAIN text : text[i] \in SpaceSet

\* x >= y and x <= y of two JavaScript numbers: false when either is NaN
NumberGE(x, y) == x.k = "number" /\ y.k = "number" /\ x.n >= y.n
NumberLE(x, y) == x.k = "number" /\ y.k = "number" /\ x.n <= y.n

\* the component is shown and React has nothing left to render or to run
Settled == Mounted /\ Idle

\* the queries a search call may be issued with
Queries == {Trim(t) : t \in InputTerms} \ {<<>>}

\* the query whose call returns the result set results
QueryOf(results) ==
    CHOOSE q \in Queries : results.items = Enrich(MatchesFor(q))

\* one of the five inputs of the view differs between the committed state
\* before and after the step
InputsChange ==
    \/ rawData' # rawData
    \/ rawResults' # rawResults
    \/ selectedYear' # selectedYear
    \/ selectedPolicy' # selectedPolicy
    \/ sortOrder' # sortOrder

----------------------------------------------------------------------------
(* Properties *)

\* C1: in every settled state the page index lies between 1 and
\* max(totalPages, 1), totalPages being ceil(|View| / 20) of the view composed
\* from the current source, filters and sort mode.
C1_PageInBounds ==
    Settled =>
        /\ 1 <= currentPage
        /\ currentPage <= Max(TotalPagesOf(CurrentView), 1)

\* C2: right after handleShowAll the search results are absent, the query
\* term and the input box are empty, both filters are absent, the sort mode
\* is newest and the page is 1, whatever the state before; this is so of the
\* state shown and of the state React is left to render.
C2_ResetOnClear ==
    lastEvent = "clear" =>
        \A s \in {Committed, queued} :
            /\ s.rawResults.null
            /\ s.searchTerm = <<>>
            /\ s.inputTerm = <<>>
            /\ s.selectedYear = <<>>
            /\ s.selectedPolicy = <<>>
            /\ s.sortOrder = "newest"
            /\ s.currentPage = 1

\* C2 witness: clear ran while a search call was in flight and a view was
\* shown that is not the one clear leaves to render
C2_Witness ==
    /\ lastEvent = "clear"
    /\ pending # EmptyBag
    /\ isLoading
    /\ Len(filteredData) > 0
    /\ filteredData # queued.filteredData

\* C3: a submit whose input is empty or all white space leaves the search
\* results absent and the stored term empty, issues no search call and does
\* not touch the in-flight flag.
C3_EmptySubmit ==
    [][ (lastEvent' \in {"submit", "submitEmpty"} /\ AllSpace(inputTerm)) =>
            /\ lastEvent' = "submitEmpty"
            /\ rawResults'.null
            /\ searchTerm' = <<>>
            /\ queued'.rawResults.null
            /\ queued'.searchTerm = <<>>
            /\ pending' = pending
            /\ isLoading' = isLoading
            /\ queued'.isLoading = queued.isLoading ]_vars

\* C3 witness: a white-space query was submitted with no call in flight
C3_Witness ==
    /\ lastEvent = "submitEmpty"
    /\ inputTerm = <<" ">>
    /\ rawResults.null
    /\ searchTerm = <<>>
    /\ ~isLoading

\* C4: neither issuing a search call nor its failure (rejected fetch,
\* unparseable body, body without matches) changes the mode, the active
\* result set or the view shown, nor the result set React is left to render.
C4_FailureKeepsResults ==
    [][ lastEvent' \in {"submit", "searchFailed"} =>
            /\ rawResults' = rawResults
            /\ queued'.rawResults = queued.rawResults
            /\ filteredData' = filteredData ]_vars

\* C4 witness: a search call failed while search results were active
C4_Witness ==
    /\ lastEvent = "searchFailed"
    /\ Mounted
    /\ ~rawResults.null
    /\ ~queued.rawResults.null
    /\ Len(filteredData) > 0

\* C5: whenever search results are active, the stored query term is the
\* query of the call that returned them.
C5_TermOfActiveResults ==
    (Mounted /\ ~rawResults.null) => searchTerm = QueryOf(rawResults)

\* C6: a submit cancels no call in flight, every settlement removes one call
\* only, and each successful resolution makes its own matches the result set
\* React renders next, so the call that resolves last wins.
C6_LastResolvedWins ==
    [][ /\ lastEvent' = "submit" =>
               \A q \in BagToSet(pending) : CopiesIn(q, pending') >= CopiesIn(q, pending)
        /\ lastEvent' \in {"searchResolved", "searchFailed"} =>
               BagCardinality(pending') = BagCardinality(pending) - 1
        /\ \A q \in BagToSet(pending) : \A outcome \in OutcomesOf(q) :
               (Mounted /\ ~Throws(outcome) /\ SearchSettles(q, outcome)) =>
                   queued'.rawResults = Results(Enrich(outcome.matches)) ]_vars

\* C6 witness: of two overlapping calls the one submitted last resolved first
\* and its matches are shown; the one submitted first resolved last and its
\* matches are the result set React renders next
C6_Witness ==
    /\ lastEvent = "searchResolved"
    /\ Mounted
    /\ pending = EmptyBag
    /\ ~rawResults.null
    /\ QueryOf(rawResults) = searchTerm
    /\ ~queued.rawResults.null
    /\ QueryOf(queued.rawResults) # searchTerm

\* C7: a change of the source (the baseline load, a successful resolution,
\* an empty submit in search mode, clear), of the year filter, of the policy
\* filter or of the sort mode sets the page to 1: a step that commits such a
\* change and leaves the component shown either leaves page 1 as the page
\* React renders next or leaves the effects to run, the effects leave page 1
\* as the page React renders next when they run, and so does a successful
\* resolution.
C7_PageResetOnChange ==
    [][ /\ (InputsChange /\ Mounted') => (queued'.currentPage = 1 \/ due' # NoEffects)
        /\ lastEvent' = "effects" => queued'.currentPage = 1
        /\ (lastEvent' = "searchResolved" /\ Mounted) => queued'.currentPage = 1 ]_vars

\* C7 witness: the sort mode was changed on page 2 of the baseline; page 2 of
\* the old view is still shown and page 1 is what React renders next
C7_Witness ==
    /\ lastEvent = "filter"
    /\ currentPage = 2
    /\ queued.currentPage = 1
    /\ sortOrder = "oldest"
    /\ rawResults.null
    /\ TotalPagesOf(queued.filteredData) = 2

\* C8: in every settled state (the component is shown, the effects have run
\* and their updates are rendered) the view is the composition of the current
\* source, filters and sort mode, and holds records of the active source
\* only, none more often than the source does.
C8_ViewIsComposition ==
    Settled =>
        /\ filteredData = CurrentView
        /\ AtMostAsOften(filteredData, SourceList(rawData, rawResults))

\* C8 witness: search results are active over a loaded baseline, a filter
\* removed some of them and the view is rendered
C8_Witness ==
    /\ Settled
    /\ ~rawResults.null
    /\ Len(rawData) > 0
    /\ Len(filteredData) > 0
    /\ Len(filteredData) < Len(rawResults.items)

\* the view composed of inputs x holds records that pass the year test and
\* the policy test only, and the view composed with either filter relaxed to
\* absent holds every record of it
ConjunctionOf(x) ==
    /\ \A i \in DOMAIN ComposeOf[x] :
          /\ x[3] = <<>> \/ ComposeOf[x][i].year = Str(x[3])
          /\ x[2] = <<>>
                \/ normalizeString(ComposeOf[x][i].policy_area) = normalizeString(Str(x[2]))
    /\ AtMostAsOften(ComposeOf[x], ComposeOf[<<x[1], x[2], <<>>, x[4], x[5]>>])
    /\ AtMostAsOften(ComposeOf[x], ComposeOf[<<x[1], <<>>, x[3], x[4], x[5]>>])

\* ConjunctionOf every source, pair of filters and sort mode
FiltersAreConjunction == \A x \in ComposeInputs : ConjunctionOf(x)

\* C9: for every source and pair of filters, every record of the composed
\* view passes the year test and the policy test, and the view composed with
\* either filter relaxed to absent holds every record of it; in every settled
\* state the view shown is so composed of the current source and filters.
C9_FilterConjunction ==
    /\ FiltersAreConjunction
    /\ Settled =>
          /\ \A i \in DOMAIN filteredData :
                /\ selectedYear = <<>> \/ filteredData[i].year = Str(selectedYear)
                /\ selectedPolicy = <<>>
                      \/ normalizeString(filteredData[i].policy_area)
                             = normalizeString(Str(selectedPolicy))
          /\ AtMostAsOften(filteredData,
                    ComposeOf[<<sortOrder, selectedPolicy, <<>>, rawResults, rawData>>])
          /\ AtMostAsOften(filteredData,
                    ComposeOf[<<sortOrder, <<>>, selectedYear, rawResults, rawData>>])

\* C9 witness: both filters are set and the view shown keeps a record whose
\* label is not written as the filter is, and drops records of the source
C9_Witness ==
    /\ Settled
    /\ selectedYear # <<>>
    /\ selectedPolicy # <<>>
    /\ Len(filteredData) < Len(rawData)
    /\ \E i \in DOMAIN filteredData : filteredData[i].policy_area # Str(selectedPolicy)

\* C10: in a settled state in baseline mode adjacent records of the view are in year order,
\* descending under newest and ascending under oldest, the year being
\* parseInt(year, 10).
C10_YearOrder ==
    (Settled /\ rawResults.null) =>
        \A i \in 1..(Len(filteredData) - 1) :
            IF sortOrder = "newest"
            THEN NumberGE(parseInt(filteredData[i].year), parseInt(filteredData[i + 1].year))
            ELSE NumberLE(parseInt(filteredData[i].year), parseInt(filteredData[i + 1].year))

\* the index of record r in list
PositionIn(list, r) == CHOOSE k \in DOMAIN list : list[k] = r

\* the view composed of a result set is in descending score order, is the
\* same under either sort mode, and keeps records of equal score in the
\* order of the search response
ScoreOrderOf(x) ==
    ~x[4].null =>
        /\ \A i \in 1..(Len(ComposeOf[x]) - 1) :
              NumberGE(ComposeOf[x][i].score, ComposeOf[x][i + 1].score)
        /\ ComposeOf[x] = ComposeOf[<<"newest", x[2], x[3], x[4], x[5]>>]
        /\ ComposeOf[x] = ComposeOf[<<"oldest", x[2], x[3], x[4], x[5]>>]
        /\ \A i, j \in DOMAIN ComposeOf[x] :
              (i < j /\ ComposeOf[x][i].score = ComposeOf[x][j].score) =>
                  PositionIn(x[4].items, ComposeOf[x][i])
                      < PositionIn(x[4].items, ComposeOf[x][j])

\* ScoreOrderOf every result set, pair of filters and sort mode
SearchViewsInScoreOrder == \A x \in ComposeInputs : ScoreOrderOf(x)

\* C11: in search mode the composed view is in descending score order under
\* either sort mode (the view composed under the other sort mode is the
\* same), and records of equal score are in the order of the search
\* response; in every settled state in search mode the view shown is so
\* ordered.
C11_ScoreOrder ==
    /\ SearchViewsInScoreOrder
    /\ (Settled /\ ~rawResults.null) =>
          /\ \A i \in 1..(Len(filteredData) - 1) :
                NumberGE(filteredData[i].score, filteredData[i + 1].score)
          /\ filteredData = ComposeOf[<<"newest", selectedPolicy, selectedYear,
                                        rawResults, rawData>>]
          /\ filteredData = ComposeOf[<<"oldest", selectedPolicy, selectedYear,
                                        rawResults, rawData>>]
          /\ \A i, j \in DOMAIN filteredData :
                (i < j /\ filteredData[i].score = filteredData[j].score) =>
                    PositionIn(rawResults.items, filteredData[i])
                        < PositionIn(rawResults.items, filteredData[j])

\* C11 witness: under the oldest sort mode a response that was not in score
\* order and holds equal scores is in the view shown, reordered
C11_Witness ==
    /\ Settled
    /\ ~rawResults.null
    /\ sortOrder = "oldest"
    /\ Len(filteredData) = Len(rawResults.items)
    /\ filteredData # rawResults.items
    /\ \E i \in 1..(Len(filteredData) - 1) :
          filteredData[i].score = filteredData[i + 1].score

\* C12: with n the length of the view, totalPages is the least k with
\* 20 * k >= n (0 for the empty view); the items of page p are the records of
\* the view at positions (p-1)*20 .. p*20 - 1, as far as the view reaches;
\* and the last page holds n mod 20 records, or 20 when that is 0.
C12_Pagination ==
    /\ totalPages * 20 >= Len(filteredData)
    /\ (totalPages - 1) * 20 < Len(filteredData)
    /\ Len(filteredData) = 0 => totalPages = 0
    /\ Len(currentPageData)
          = Max(0, Min(Len(filteredData), currentPage * 20) - (currentPage - 1) * 20)
    /\ \A i \in DOMAIN currentPageData :
          currentPageData[i] = filteredData[(currentPage - 1) * 20 + i]
    /\ currentPage = totalPages =>
          Len(currentPageData)
              = IF Len(filteredData) % 20 = 0 THEN 20 ELSE Len(filteredData) % 20

\* C12 witness: the last page of a view whose length is a multiple of 20
C12_Witness ==
    /\ Len(filteredData) > 0
    /\ Len(filteredData) % 20 = 0
    /\ currentPage = totalPages
    /\ Len(currentPageData) = 20

RECURSIVE Pow10(_)
Pow10(k) == IF k = 0 THEN 1 ELSE 10 * Pow10(k - 1)

\* text without its first n characters
Drop(text, n) == SubSeq(text, n + 1, Len(text))

\* the digits that follow a "." at the head of text, if any
FractionDigits(text) ==
    IF text # <<>> /\ Head(text) = "." THEN DigitsPrefix(Tail(text)) ELSE <<>>

\* text after the fraction that may stand at its head
AfterFraction(text) ==
    IF text # <<>> /\ Head(text) = "." THEN Drop(text, 1 + Len(FractionDigits(text)))
    ELSE text

\* the exponent e<digits> or e-<digits> that is the whole of text: [ok, n]
ExponentOf(text) ==
    IF text = <<>> THEN [ok |-> TRUE, n |-> 0]
    ELSE IF Head(text) # "e" THEN [ok |-> FALSE, n |-> 0]
    ELSE IF Len(text) >= 3 /\ text[2] = "-" /\ DigitsPrefix(Drop(text, 2)) = Drop(text, 2)
         THEN [ok |-> TRUE, n |-> 0 - DigitsValue(Drop(text, 2))]
    ELSE IF Len(text) >= 2 /\ DigitsPrefix(Drop(text, 1)) = Drop(text, 1)
         THEN [ok |-> TRUE, n |-> DigitsValue(Drop(text, 1))]
    ELSE [ok |-> FALSE, n |-> 0]

\* mantissa * 10^power when that is an integer: [ok, n]
ScaledInteger(mantissa, power) ==
    IF power >= 0 THEN [ok |-> TRUE, n |-> mantissa * Pow10(power)]
    ELSE IF mantissa % Pow10(0 - power) = 0
         THEN [ok |-> TRUE, n |-> mantissa \div Pow10(0 - power)]
    ELSE [ok |-> FALSE, n |-> 0]

\* the number an unsigned numeral <digits>[.<digits>][e[-]<digits>] denotes,
\* when it is an integer: [ok, n]
UnsignedValue(text) ==
    IF DigitsPrefix(text) = <<>> THEN [ok |-> FALSE, n |-> 0]
    ELSE IF ~ExponentOf(AfterFraction(Drop(text, Len(DigitsPrefix(text))))).ok
         THEN [ok |-> FALSE, n |-> 0]
    ELSE ScaledInteger(
             DigitsValue(DigitsPrefix(text)
                 \o FractionDigits(Drop(text, Len(DigitsPrefix(text))))),
             ExponentOf(AfterFraction(Drop(text, Len(DigitsPrefix(text))))).n
                 - Len(FractionDigits(Drop(text, Len(DigitsPrefix(text))))))

\* the page number the text of a request denotes: [ok, n], ok being false
\* when the text is not a numeral or denotes no integer
RequestValue(text) ==
    IF text # <<>> /\ Head(text) = "-"
    THEN [ok |-> UnsignedValue(Tail(text)).ok, n |-> 0 - UnsignedValue(Tail(text)).n]
    ELSE UnsignedValue(text)

\* C13: whenever the page-number form is shown, for every text its box may
\* hold, submitting it leaves the page as it is when the text denotes no
\* number or a number outside [1, totalPages], and sets the page to the
\* number the text denotes when that lies in [1, totalPages].
C13_PageJump ==
    Len(filteredData) > 0 =>
        \A text \in PageInputs :
            PageAfterJump(text, currentPage) =
                IF /\ RequestValue(text).ok
                   /\ 1 <= RequestValue(text).n
                   /\ RequestValue(text).n <= totalPages
                THEN RequestValue(text).n
                ELSE currentPage

\* s begins with p
StartsWith(s, p) == Len(s) >= Len(p) /\ SubSeq(s, 1, Len(p)) = p

RECURSIVE UpTo(_, _)
\* s up to the first occurrence of p in it
UpTo(s, p) ==
    IF s = <<>> \/ StartsWith(s, p) THEN <<>> ELSE <<Head(s)>> \o UpTo(Tail(s), p)

\* the marker that ends a stretch
EndMarker(em) == IF em THEN CloseMark ELSE OpenMark

RECURSIVE Pieces(_, _)
\* the stretches of html outside (em false) and inside (em true) emphasis
\* markers, in order; em tells whether html begins inside a marker
Pieces(html, em) ==
    IF html = <<>> THEN <<>>
    ELSE <<[em |-> em, s |-> UpTo(html, EndMarker(em))]>>
             \o Pieces(Drop(html, Len(UpTo(html, EndMarker(em))) + Len(EndMarker(em))),
                       ~em)

RECURSIVE Concat(_)
\* the stretches of a sequence of pieces, joined
Concat(pieces) == IF pieces = <<>> THEN <<>> ELSE Head(pieces).s \o Concat(Tail(pieces))

\* term occurs in s, case ignored
OccursIn(term, s) ==
    \E i \in 1..(Len(s) - Len(term) + 1) :
        ToLowerCase(SubSeq(s, i, i + Len(term) - 1)) = ToLowerCase(term)

\* pieces are text with the occurrences of term, and nothing else, emphasized
EmphasisOf(pieces, text, term) ==
    /\ Concat(pieces) = text
    /\ \A i \in DOMAIN pieces :
          IF pieces[i].em THEN ToLowerCase(pieces[i].s) = ToLowerCase(term)
          ELSE ~OccursIn(term, pieces[i].s)

\* out is what the literal, case-insensitive emphasis of term in text is
LiteralEmphasis(text, term, out) ==
    IF AllSpace(term) THEN out = Str(text)
    ELSE out.k = "string" /\ EmphasisOf(Pieces(out.s, FALSE), text, term)

\* LiteralEmphasis of what highlightText returns, for every text and term
HighlightIsLiteral ==
    \A x \in HighlightTexts \X HighlightTerms :
        x[1].k = "string" => LiteralEmphasis(x[1].s, x[2], HighlightOf[x])

\* C14: for every text and term (among them all-white-space terms, terms
\* with regular-expression metacharacters and terms with letters beyond a to
\* z) highlightText returns the text
\* unchanged when the term is empty or all white space, and otherwise the
\* text with each occurrence of the term, taken literally and without regard
\* to case, inside an emphasis marker and nothing else changed; it does not
\* throw.  The same holds of what is rendered for the records of the page.
C14_HighlightLiteral ==
    /\ HighlightIsLiteral
    /\ ~isLoading =>
          \A item \in Range(currentPageData) :
              item.text.k = "string" =>
                  LiteralEmphasis(item.text.s, searchTerm, RenderedHtml(item))

\* C14 witness: the stored term holds metacharacters and the page shows a
\* record in whose text it is emphasized twice, in different case
C14_Witness ==
    /\ ~isLoading
    /\ "(" \in Range(searchTerm)
    /\ \E item \in Range(currentPageData) :
          /\ item.text = Str(TextA)
          /\ Len(RenderedHtml(item).s)
                = Len(TextA) + 2 * (Len(OpenMark) + Len(CloseMark))

\* C15: a non-empty submit leaves the in-flight flag set, and the settlement
\* of a search call, by success or by failure, leaves it cleared in the state
\* React renders next, which the render commits.
C15_FlagSetAndCleared ==
    [][ /\ lastEvent' = "submit" => (isLoading' /\ queued'.isLoading)
        /\ (lastEvent' \in {"searchResolved", "searchFailed"} /\ Mounted)
               => ~queued'.isLoading
        /\ (lastEvent' = "render" /\ ~queued.isLoading) => ~isLoading' ]_vars

\* C15 witness: the only call in flight failed and the cleared flag is what
\* React renders next, the spinner being shown still
C15_Witness ==
    /\ lastEvent = "searchFailed"
    /\ searchTerm # <<>>
    /\ pending = EmptyBag
    /\ isLoading
    /\ ~queued.isLoading

\* C16: while the component is shown and a search call is awaiting its
\* resolution the in-flight flag is set.
C16_FlagWhilePending == (Mounted /\ pending # EmptyBag) => isLoading

\* C17: a search call that resolves right after clear or an empty submit
\* (it was issued before) leaves the search results absent in the state
\* React renders next.
C17_StaleResolutionIgnored ==
    [][ (lastEvent \in {"clear", "submitEmpty"} /\ lastEvent' = "searchResolved")
            => queued'.rawResults.null ]_vars

\* C18: whenever the navigation is shown, previous applied to the current
\* page gives 1 on page 1 and one less otherwise, next gives totalPages on
\* the last page and one more otherwise; neither gives 0 or a page past
\* the last.
C18_NavigationSaturates ==
    Len(filteredData) > 0 =>
        /\ PrevUpdater(currentPage) = IF currentPage = 1 THEN 1 ELSE currentPage - 1
        /\ NextUpdater(currentPage)
              = IF currentPage = totalPages THEN totalPages ELSE currentPage + 1
        /\ PrevUpdater(currentPage) \in 1..totalPages
        /\ NextUpdater(currentPage) \in 1..totalPages

\* year x is not below year y when a year that does not parse is the lowest
NotBelow(x, y) == y.k # "number" \/ (x.k = "number" /\ x.n >= y.n)

\* C19: in a settled state in baseline mode adjacent records of the view are in year order
\* when a year that is not numeric or is missing counts as the lowest value:
\* such records come last under newest and first under oldest, and the
\* records with numeric years are in order among themselves.
C19_UnparseableYearLowest ==
    (Settled /\ rawResults.null) =>
        \A i \in 1..(Len(filteredData) - 1) :
            IF sortOrder = "newest"
            THEN NotBelow(parseInt(filteredData[i].year), parseInt(filteredData[i + 1].year))
            ELSE NotBelow(parseInt(filteredData[i + 1].year), parseInt(filteredData[i].year))

\* C20: when the list is rendered with a non-empty stored term, what is
\* rendered for a record whose text is falsy or absent is that text as it
\* is, and rendering does not throw.
C20_FalsyTextSkipped ==
    (~isLoading /\ searchTerm # <<>>) =>
        /\ \A item \in Range(currentPageData) :
              Falsy(item.text) => RenderedHtml(item) = item.text
        /\ ~RenderThrows

\* the records the environment may hand to the component
AllRecords ==
    UNION {Range(d) : d \in Datasets}
        \cup UNION {Range(Enrich(o.matches)) : o \in {x \in Outcomes : ~Throws(x)}}

\* the labels normalizeString is applied to: those of the records and those
\* of the policy buttons
Labels == {r.policy_area : r \in AllRecords} \cup {Str(area) : area \in PolicyOptions}

\* the letters of the alphabet
LetterSet ==
    Range(UpperChars) \cup Range(LowerChars) \cup Range(Latin1Upper)
        \cup Range(Latin1Lower) \cup {"ª", "º", "ß", "ẞ"}

\* a letter, a digit, white space or "&"
IsKept(c) == c \in LetterSet \cup DigitSet \cup SpaceSet \cup {"&"}

\* the label lower-cased, without the characters that are not kept, trimmed;
\* the empty string for an absent or empty label
Normalized(label) ==
    IF label.k # "string" \/ label.s = <<>> THEN <<>>
    ELSE Trim(SelectSeq(ToLowerCase(label.s), IsKept))

\* normalizeString returns the normalized label, for every label
NormalizeIsAsStated ==
    \A label \in Labels : normalizeString(label) = Str(Normalized(label))

\* C21: normalizeString returns the empty string for an absent or empty
\* label and otherwise the label lower-cased, stripped of every character
\* that is not a letter, a digit, white space or "&", and trimmed; and with
\* a policy filter set, every record of the source that passes the year
\* test and whose label differs from the filter in case, punctuation or
\* surrounding white space only is in the view of a settled state.
C21_NormalizeLabels ==
    /\ NormalizeIsAsStated
    /\ (Settled /\ selectedPolicy # <<>>) =>
          \A r \in Range(SourceList(rawData, rawResults)) :
              (okYear(r, selectedYear)
                  /\ Normalized(r.policy_area) = Normalized(Str(selectedPolicy)))
                  => r \in Range(filteredData)

====
